---- MODULE Spec2Model ----
(***************************************************************************)
(* The cache layer of the review-sentiment backend: the key-value store    *)
(* client (backend/redis_config.py), the fetch-or-compute orchestrator,    *)
(* warming and invalidation (backend/cache_utils.py) and the cached        *)
(* dashboard queries that use them (backend/routes/dashboard.py).          *)
(*                                                                         *)
(* Text is modelled as a sequence of one-character strings, so that        *)
(* formatting, sorting, joining and glob matching are computed, not        *)
(* assumed.                                                                *)
(***************************************************************************)
EXTENDS Integers, Sequences, FiniteSets, TLC

VARIABLES
    redis_client,   \* RedisConfig.redis_client: "None" or "client"
    store,          \* the key-value server: key text -> [data, ttl]
    prev,           \* history: the handler call completed before `last`
    last,           \* history: the most recently completed handler call
    input,          \* arguments drawn for the pure functions
    coros           \* coroutines in flight: task id -> position and locals

vars == <<redis_client, store, prev, last, input, coros>>

(***************************************************************************)
(* Text                                                                    *)
(***************************************************************************)

\* The printable ASCII characters in code-point order, from 32 (space); the
\* double quote (34) and the backtick (96) are written as names.
Ascii ==
    << " ", "!", "DQUOTE", "#", "$", "%", "&", "'", "(", ")", "*", "+", ",", "-",
       ".", "/", "0", "1", "2", "3", "4", "5", "6", "7", "8", "9", ":", ";",
       "<", "=", ">", "?", "@", "A", "B", "C", "D", "E", "F", "G", "H", "I",
       "J", "K", "L", "M", "N", "O", "P", "Q", "R", "S", "T", "U", "V", "W",
       "X", "Y", "Z", "[", "\\", "]", "^", "_", "BACKTICK", "a", "b", "c", "d", "e",
       "f", "g", "h", "i", "j", "k", "l", "m", "n", "o", "p", "q", "r", "s",
       "t", "u", "v", "w", "x", "y", "z", "{", "|", "}", "~" >>

\* The place of each character in Ascii.
AsciiIndex ==
    [c \in {Ascii[i] : i \in DOMAIN Ascii} |->
        CHOOSE i \in DOMAIN Ascii : Ascii[i] = c]

\* ord(c) of Python for a printable ASCII character.
Ord(c) == 31 + AsciiIndex[c]

\* s < t for Python str: lexicographic by code point, a proper prefix first.
RECURSIVE StrLess(_, _)
StrLess(s, t) ==
    IF t = <<>> THEN FALSE
    ELSE IF s = <<>> THEN TRUE
    ELSE IF Ord(Head(s)) # Ord(Head(t)) THEN Ord(Head(s)) < Ord(Head(t))
    ELSE StrLess(Tail(s), Tail(t))

\* str(n) for a non-negative int: its decimal digits.
RECURSIVE IntStr(_)
IntStr(n) ==
    IF n < 10 THEN <<Ascii[17 + n]>>
    ELSE IntStr(n \div 10) \o <<Ascii[17 + (n % 10)]>>

(***************************************************************************)
(* Python values                                                           *)
(***************************************************************************)

None == [t |-> "NoneType"]
PyStr(s) == [t |-> "str", s |-> s]
PyInt(n) == [t |-> "int", n |-> n]

\* f"{v}" for a str or an int parameter value.
Format(v) == IF v.t = "int" THEN IntStr(v.n) ELSE v.s

\* F applied to the value of v, which is computed once.
Bind(v, F(_)) == CHOOSE y \in {F(x) : x \in {v}} : TRUE

\* bool(v) for None, an int or a str: what `v or default` and `if v:` test.
Truthy(v) ==
    /\ v # None
    /\ ~(v.t = "int" /\ v.n = 0)
    /\ ~(v.t = "str" /\ v.s = <<>>)

(***************************************************************************)
(* RedisConfig.generate_cache_key                                          *)
(***************************************************************************)

\* kwargs is a sequence of <<name, value>> items with distinct names, in the
\* order the caller wrote them.  (name, value) tuples compare by name first;
\* names are distinct, so the values are never compared.
ItemLess(a, b) == StrLess(a[1], b[1])

\* sorted(): x is placed before the first item that is greater than it.
RECURSIVE Insert(_, _)
Insert(x, items) ==
    IF items = <<>> THEN <<x>>
    ELSE IF ItemLess(x, Head(items)) THEN <<x>> \o items
    ELSE <<Head(items)>> \o Insert(x, Tail(items))

RECURSIVE Sorted(_)
Sorted(items) ==
    IF items = <<>> THEN <<>>
    ELSE Insert(items[Len(items)], Sorted(SubSeq(items, 1, Len(items) - 1)))

\* [f"{k}={v}" for k, v in sorted_params if v is not None]
RECURSIVE Pairs(_)
Pairs(items) ==
    IF items = <<>> THEN <<>>
    ELSE IF Head(items)[2] = None THEN Pairs(Tail(items))
    ELSE <<Head(items)[1] \o <<"=">> \o Format(Head(items)[2])>>
         \o Pairs(Tail(items))

\* sep.join(parts)
RECURSIVE Join(_, _)
Join(sep, parts) ==
    IF parts = <<>> THEN <<>>
    ELSE IF Len(parts) = 1 THEN parts[1]
    ELSE parts[1] \o sep \o Join(sep, Tail(parts))

\* The text built from the parameters in the order they were given.
param_string_Unsorted(kwargs) == Join(<<"&">>, Pairs(kwargs))

\* The canonical text that is hashed.
param_string(kwargs) == Join(<<"&">>, Pairs(Sorted(kwargs)))

\* Width of the modelled digest in hexadecimal digits.
DigestLen == 4

HexDigits ==
    <<"0", "1", "2", "3", "4", "5", "6", "7", "8", "9", "a", "b", "c", "d",
      "e", "f">>

RECURSIVE Pow16(_)
Pow16(n) == IF n = 0 THEN 1 ELSE 16 * Pow16(n - 1)

\* The running hash h after the characters s[lo..hi], taken half by half.
RECURSIVE HashFold(_, _, _, _)
HashFold(h, s, lo, hi) ==
    IF lo > hi THEN h
    ELSE IF lo = hi THEN (h * 131 + Ord(s[lo])) % Pow16(DigestLen)
    ELSE Bind(HashFold(h, s, lo, (lo + hi) \div 2),
            LAMBDA m : HashFold(m, s, (lo + hi) \div 2 + 1, hi))

RECURSIVE HexStr(_, _)
HexStr(h, n) ==
    IF n = 0 THEN <<>>
    ELSE HexStr(h \div 16, n - 1) \o <<HexDigits[(h % 16) + 1]>>

\* hashlib.md5(text.encode()).hexdigest(): a fixed function from the text to
\* DigestLen lower-case hexadecimal digits (a mixing hash stands for MD5).
md5_hexdigest(s) == HexStr(HashFold(7, s, 1, Len(s)), DigestLen)

generate_cache_key(prefix, kwargs) ==
    prefix \o <<":">> \o md5_hexdigest(param_string(kwargs))

(***************************************************************************)
(* Values that producers return, and their JSON wire form                  *)
(***************************************************************************)

\* A JSON-native result (a dict of numbers, strings and lists).
Dict(i) == [t |-> "dict", id |-> i]
\* A result that is not JSON-native (a datetime): json.dumps falls back to
\* str() for it, and json.loads gives that string back.
DateTime == [t |-> "datetime", iso |-> <<"2", "0", "2", "4">>]
\* An exception raised by a producer.
Exc(i) == [t |-> "Exception", e |-> i]

IsException(v) == v.t = "Exception"

\* The composite response of a dashboard endpoint: its components in task
\* order and metadata.partial_failures.
Dashboard(ns, comps, failures) ==
    [t |-> "dashboard", endpoint |-> ns, comps |-> comps,
     partial_failures |-> failures]

\* What json.dumps(value, default=str) followed by json.loads yields.
RECURSIVE JsonImage(_)
JsonImage(v) ==
    IF v.t = "datetime" THEN PyStr(v.iso)
    ELSE IF v.t = "dashboard"
        THEN [v EXCEPT !.comps = [i \in DOMAIN v.comps |-> JsonImage(v.comps[i])]]
    ELSE v

\* A result that json.dumps cannot encode even with default=str (an object
\* that refers to itself, a dict with a tuple as key): json.dumps raises.
Cyclic == [t |-> "cyclic"]

Encodable(value) == value.t # "cyclic"

\* json.dumps(value, default=str): the JSON text.
json_dumps(value) == [text |-> "json", of |-> JsonImage(value)]

\* An entry's data that is not JSON text (written by another program, or
\* cut short): json.loads raises on it.
Corrupt == [text |-> "not json"]

Decodable(text) == text.text = "json"

\* json.loads(text)
json_loads(text) == text.of

(***************************************************************************)
(* RedisConfig: the store client                                           *)
(***************************************************************************)

default_ttl == 600
component_ttl == 1800

NoEntry == [data |-> "nil"]

\* The server's GET: the text under key, if it is held.
Lookup(st, key) == IF key \in DOMAIN st THEN st[key] ELSE NoEntry

\* The server's SETEX.
Setex(st, key, ttl, text) ==
    [k \in DOMAIN st \cup {key} |->
        IF k = key THEN [data |-> text, ttl |-> ttl] ELSE st[k]]

\* A get that never finds the entry.
RedisGet_AlwaysMiss(st, key, ok) == None

\* A get that hands out the stored text as it is when it cannot decode it.
RedisGet_Raw(st, key, ok) ==
    IF redis_client = "None" THEN None
    ELSE IF ~ok THEN None
    ELSE IF Lookup(st, key) = NoEntry THEN None
    ELSE IF ~Decodable(Lookup(st, key).data) THEN PyStr(<<"?">>)
    ELSE json_loads(Lookup(st, key).data)

\* RedisConfig.get(key).  ok: the server answered the command; a command
\* that raises (time-out, connection lost) is caught and gives None, and so
\* is a json.loads that raises.
RedisGet(st, key, ok) ==
    IF redis_client = "None" THEN None
    ELSE IF ~ok THEN None
    ELSE IF Lookup(st, key) = NoEntry THEN None
    ELSE IF ~Decodable(Lookup(st, key).data) THEN None
    ELSE json_loads(Lookup(st, key).data)

\* A set that reports success without writing.
RedisSet_NoWrite(st, key, value, ttl, ok) ==
    IF redis_client = "None" THEN [ret |-> FALSE, store |-> st]
    ELSE IF ~ok THEN [ret |-> FALSE, store |-> st]
    ELSE [ret |-> TRUE, store |-> st]

\* A set that does not look at the handle first.
RedisSet_Unguarded(st, key, value, ttl, ok) ==
    IF ~ok THEN [ret |-> FALSE, store |-> st]
    ELSE [ret |-> TRUE,
          store |-> Setex(st, key,
                          IF Truthy(ttl) THEN ttl.n ELSE default_ttl,
                          json_dumps(value))]

\* RedisConfig.set(key, value, ttl): the bool it returns and the store after.
\* A json.dumps that raises is caught before anything is sent.
RedisSet(st, key, value, ttl, ok) ==
    IF redis_client = "None" THEN [ret |-> FALSE, store |-> st]
    ELSE IF ~Encodable(value) THEN [ret |-> FALSE, store |-> st]
    ELSE IF ~ok THEN [ret |-> FALSE, store |-> st]
    ELSE [ret |-> TRUE,
          store |-> Setex(st, key,
                          IF Truthy(ttl) THEN ttl.n ELSE default_ttl,
                          json_dumps(value))]

(***************************************************************************)
(* CacheManager.cache_with_fallback                                        *)
(***************************************************************************)

\* A fetch-or-compute that swallows the producer's exception: it stores a
\* null marker under the key and returns None.
cache_with_fallback_Swallow(st, cache_key, ttl, out, getOk, setOk) ==
    LET cached_data == RedisGet(st, cache_key, getOk) IN
    IF cached_data # None
        THEN [ret |-> cached_data, store |-> st, invoked |-> FALSE,
              wrote |-> FALSE]
    ELSE IF IsException(out)
        THEN LET w == RedisSet(st, cache_key, None, ttl, setOk) IN
             [ret |-> None, store |-> w.store, invoked |-> TRUE,
              wrote |-> w.ret]
    ELSE IF out # None
        THEN LET w == RedisSet(st, cache_key, out, ttl, setOk) IN
             [ret |-> out, store |-> w.store, invoked |-> TRUE,
              wrote |-> w.ret]
    ELSE [ret |-> None, store |-> st, invoked |-> TRUE, wrote |-> FALSE]

\* A fetch-or-compute that stores whatever the producer returns, None
\* included, and serves a stored None as a hit.
cache_with_fallback_Negative(st, cache_key, ttl, out, getOk, setOk) ==
    IF redis_client = "client" /\ getOk /\ Lookup(st, cache_key) # NoEntry
        THEN [ret |-> json_loads(Lookup(st, cache_key).data), store |-> st,
              invoked |-> FALSE, wrote |-> FALSE]
    ELSE IF IsException(out)
        THEN [ret |-> out, store |-> st, invoked |-> TRUE, wrote |-> FALSE]
    ELSE LET w == RedisSet(st, cache_key, out, ttl, setOk) IN
         [ret |-> out, store |-> w.store, invoked |-> TRUE, wrote |-> w.ret]

\* A fetch-or-compute that gives up when the store does not answer the
\* lookup: it returns None without invoking the producer.
cache_with_fallback_FailClosed(st, cache_key, ttl, out, getOk, setOk) ==
    IF redis_client = "None" \/ ~getOk
        THEN [ret |-> None, store |-> st, invoked |-> FALSE,
              wrote |-> FALSE]
    ELSE IF Lookup(st, cache_key) # NoEntry
        THEN [ret |-> json_loads(Lookup(st, cache_key).data), store |-> st,
              invoked |-> FALSE, wrote |-> FALSE]
    ELSE IF IsException(out) \/ out = None
        THEN [ret |-> out, store |-> st, invoked |-> TRUE, wrote |-> FALSE]
    ELSE LET w == RedisSet(st, cache_key, out, ttl, setOk) IN
         [ret |-> out, store |-> w.store, invoked |-> TRUE, wrote |-> w.ret]

\* out is what fetch_function(**fetch_kwargs) does if it is awaited: the
\* value it returns (None included) or the exception it raises.  The result
\* is the value returned or the exception raised (ret), the store afterwards,
\* and whether the producer was invoked and a set succeeded.
cache_with_fallback(st, cache_key, ttl, out, getOk, setOk) ==
    LET cached_data == RedisGet(st, cache_key, getOk) IN
    IF cached_data # None
        THEN [ret |-> cached_data, store |-> st, invoked |-> FALSE,
              wrote |-> FALSE]
    ELSE IF IsException(out)
        THEN [ret |-> out, store |-> st, invoked |-> TRUE, wrote |-> FALSE]
    ELSE IF out # None
        THEN LET w == RedisSet(st, cache_key, out, ttl, setOk) IN
             [ret |-> out, store |-> w.store, invoked |-> TRUE,
              wrote |-> w.ret]
    ELSE [ret |-> None, store |-> st, invoked |-> TRUE, wrote |-> FALSE]

\* RedisConfig.delete(key): the bool it returns and the store after.
RedisDelete(st, key, ok) ==
    IF redis_client = "None" THEN [ret |-> FALSE, store |-> st]
    ELSE IF ~ok THEN [ret |-> FALSE, store |-> st]
    ELSE [ret |-> key \in DOMAIN st,
          store |-> [k \in DOMAIN st \ {key} |-> st[k]]]

(***************************************************************************)
(* Names used by the callers                                               *)
(***************************************************************************)

N_summary == <<"s", "u", "m", "m", "a", "r", "y">>
N_wordcloud == <<"w", "o", "r", "d", "c", "l", "o", "u", "d">>
N_timeline == <<"t", "i", "m", "e", "l", "i", "n", "e">>
N_distribution ==
    <<"d", "i", "s", "t", "r", "i", "b", "u", "t", "i", "o", "n">>
N_sentiment_map ==
    <<"s", "e", "n", "t", "i", "m", "e", "n", "t", "_", "m", "a", "p">>
N_sentiment_pie ==
    <<"s", "e", "n", "t", "i", "m", "e", "n", "t", "_", "p", "i", "e">>
N_dashboard == <<"d", "a", "s", "h", "b", "o", "a", "r", "d">>
N_product_dashboard ==
    <<"p", "r", "o", "d", "u", "c", "t", "_">> \o N_dashboard

A_parent_asin == <<"p", "a", "r", "e", "n", "t", "_", "a", "s", "i", "n">>
A_start_date == <<"s", "t", "a", "r", "t", "_", "d", "a", "t", "e">>
A_end_date == <<"e", "n", "d", "_", "d", "a", "t", "e">>
A_cities == <<"c", "i", "t", "i", "e", "s">>
A_period == <<"p", "e", "r", "i", "o", "d">>

V_year == PyStr(<<"y", "e", "a", "r">>)
V_month == PyStr(<<"m", "o", "n", "t", "h">>)

(***************************************************************************)
(* History and the handlers as actions                                     *)
(***************************************************************************)

NoCall == [op |-> "none"]
NotInvoked == [t |-> "NotInvoked"]

\* A product id and the cache keys the calls below use.
ProductA == <<"B", "0", "7">>

CallKeys ==
    { generate_cache_key(ns, <<<<A_parent_asin, PyStr(ProductA)>>>>) :
        ns \in {N_summary, N_timeline} }

\* The ttl arguments tried: unspecified, zero and a number of seconds.
CallTtls == {None, PyInt(0), PyInt(60)}

\* What a producer may do: return a value, return None, or raise.
Outcomes == {Dict(1), DateTime, None, Exc(1)}

\* The keys whose entry differs between two store states.
Touched(st, st2) ==
    {k \in DOMAIN st \cup DOMAIN st2 : Lookup(st, k) # Lookup(st2, k)}

\* What the history keeps of the call before the last one.
Brief(r) ==
    IF r.op = "cache_with_fallback"
        THEN [op |-> r.op, key |-> r.key, held |-> r.held,
              answered |-> r.answered, out |-> r.out, invoked |-> r.invoked,
              wrote |-> r.wrote, ret |-> r.ret]
    ELSE IF r.op \in {"warm", "invalidate"}
        THEN [op |-> r.op, product |-> r.product, answered |-> r.answered]
    ELSE [op |-> r.op]

Init ==
    /\ redis_client = "None"
    /\ store = <<>>
    /\ prev = NoCall
    /\ last = NoCall
    /\ coros = <<>>
    /\ input = NoCall

\* A start-up whose failed connect keeps the handle it constructed.
Connect_KeepHandle(ok) ==
    /\ last = [op |-> "none"]
    /\ redis_client' = "client"
    /\ prev' = [op |-> "none"]
    /\ last' = [op |-> "connect", raised |-> ~ok]
    /\ UNCHANGED <<store, input, coros>>

\* main.lifespan: connect() is awaited once at start-up; when it raises, the
\* handle is None and start-up goes on to serve without the cache.
Connect(ok) ==
    /\ last = NoCall
    /\ redis_client' = IF ok THEN "client" ELSE "None"
    /\ prev' = Brief(last)
    /\ last' = [op |-> "connect", raised |-> ~ok]
    /\ UNCHANGED <<store, input, coros>>

Serving == last # NoCall

\* One call of cache_with_fallback, from its first line to its return.
CacheWithFallback(key, ttl, out, getOk, setOk) ==
    /\ Serving
    /\ \E r \in {cache_with_fallback(store, key, ttl, out, getOk, setOk)} :
        /\ store' = r.store
        /\ last' = [op |-> "cache_with_fallback", key |-> key, ttl |-> ttl,
                    held |-> Lookup(store, key),
                    answered |-> redis_client = "client" /\ getOk,
                    out |-> IF r.invoked THEN out ELSE NotInvoked,
                    invoked |-> r.invoked, wrote |-> r.wrote, ret |-> r.ret,
                    touched |-> Touched(store, r.store)]
    /\ prev' = Brief(last)
    /\ UNCHANGED <<redis_client, input, coros>>

\* One call of RedisConfig.delete.
Delete(key, ok) ==
    /\ Serving
    /\ \E r \in {RedisDelete(store, key, ok)} :
        /\ store' = r.store
        /\ last' = [op |-> "delete", key |-> key, ret |-> r.ret,
                    touched |-> Touched(store, r.store)]
    /\ prev' = Brief(last)
    /\ UNCHANGED <<redis_client, input, coros>>

\* The server drops an entry whose time to live has run out.
Expire(key) ==
    /\ key \in DOMAIN store
    /\ store' = [k \in DOMAIN store \ {key} |-> store[k]]
    /\ prev' = Brief(last)
    /\ last' = [op |-> "expire", key |-> key]
    /\ UNCHANGED <<redis_client, input, coros>>

Next ==
    \/ \E ok \in BOOLEAN : Connect(ok)
    \/ \E key \in CallKeys, ttl \in CallTtls, out \in Outcomes,
          getOk \in BOOLEAN, setOk \in BOOLEAN :
            CacheWithFallback(key, ttl, out, getOk, setOk)
    \/ \E key \in CallKeys, ok \in BOOLEAN : Delete(key, ok)
    \/ \E key \in CallKeys : Expire(key)

Spec == Init /\ [][Next]_vars

(***************************************************************************)
(* Claims about cache_with_fallback                                        *)
(***************************************************************************)

IsCwf(r) == r.op = "cache_with_fallback"

\* Two calls for the same key, one right after the other: nothing was
\* deleted, expired or written between them.
TwoCalls == IsCwf(prev) /\ IsCwf(last) /\ prev.key = last.key

\* A value that a JSON round trip gives back unchanged.
JsonNative(v) == JsonImage(v) = v

\* The producer of call r was invoked and returned a value other than None.
Produced(r) == r.invoked /\ ~IsException(r.out) /\ r.out # None

\* C1 as stated: for every key, ttl and producer, two calls in sequence with
\* no invalidation between them invoke the producer at most once in total and
\* the second returns the value the first returned.
C1_Original ==
    TwoCalls => /\ ~(prev.invoked /\ last.invoked)
                /\ last.ret = prev.ret

\* C1 amended: when the first call returned a cached value, or a non-null
\* JSON-native producer result that the store accepted, and the store answers
\* the second call's lookup, with no invalidation or expiry between the two,
\* the second call does not invoke the producer (so it is invoked at most
\* once in total) and returns the value the first call returned.
C1_Idempotence ==
    (/\ TwoCalls
     /\ \/ ~prev.invoked
        \/ Produced(prev) /\ prev.wrote /\ JsonNative(prev.ret)
     /\ last.answered)
    => /\ ~last.invoked
       /\ last.ret = prev.ret

C1_Witness ==
    /\ TwoCalls
    /\ Produced(prev) /\ prev.wrote /\ JsonNative(prev.ret)
    /\ last.answered /\ ~last.invoked /\ last.ret = prev.ret

\* The producer of call r was invoked and raised.
Failed(r) == r.invoked /\ IsException(r.out)

\* C3 as stated: when the producer raises, the same exception reaches the
\* caller and no entry is created or modified; a later call for the key with
\* a succeeding producer invokes that producer and stores its result.
C3_Original ==
    /\ (IsCwf(last) /\ Failed(last))
        => last.ret = last.out /\ last.touched = {}
    /\ (TwoCalls /\ Failed(prev)
            /\ ~IsException(last.out) /\ last.out # None)
        => /\ last.invoked
           /\ last.wrote
           /\ Lookup(store, last.key).data = json_dumps(last.out)

\* C3 amended: when the producer raises, the same exception reaches the
\* caller and no entry is created or modified; when the store answered the
\* lookup of the failed call and answers the lookup of the next call for the
\* key, that call invokes its producer, and a non-null result that the store
\* accepts is then held under the key.
C3_FailureNotCached ==
    /\ (IsCwf(last) /\ Failed(last))
        => /\ last.ret = last.out
           /\ last.touched = {}
           /\ Lookup(store, last.key) = last.held
    /\ (TwoCalls /\ Failed(prev) /\ prev.answered /\ last.answered)
        => /\ last.invoked
           /\ (Produced(last) /\ last.wrote)
                => Lookup(store, last.key).data = json_dumps(last.out)

C3_Witness ==
    /\ TwoCalls /\ Failed(prev) /\ prev.answered /\ prev.ret = prev.out
    /\ last.answered /\ Produced(last) /\ last.wrote
    /\ Lookup(store, last.key).data = json_dumps(last.out)

\* C4 as stated: when the producer returns None the call returns None and
\* writes nothing, so every subsequent call for the key invokes the producer
\* again until a non-null result is written.
C4_Original ==
    /\ (IsCwf(last) /\ last.invoked /\ last.out = None)
        => last.ret = None /\ last.touched = {}
    /\ (TwoCalls /\ prev.invoked /\ prev.out = None) => last.invoked

\* C4 amended: when the producer returns None the call returns None and
\* writes nothing, so every subsequent call for the key invokes the producer
\* again until a non-null result is written, provided the store held no entry
\* for the key when the producer returned None.
C4_NoNegativeCaching ==
    /\ (IsCwf(last) /\ last.invoked /\ last.out = None)
        => last.ret = None /\ last.touched = {} /\ ~last.wrote
    /\ (TwoCalls /\ prev.invoked /\ prev.out = None /\ prev.held = NoEntry)
        => last.invoked

C4_Witness ==
    /\ TwoCalls /\ prev.invoked /\ prev.out = None /\ prev.held = NoEntry
    /\ prev.answered /\ last.answered /\ last.invoked
    /\ redis_client = "client"

C6_Original ==
    (IsCwf(last) /\ Produced(last) /\ last.wrote)
    => /\ Lookup(store, last.key) =
            [data |-> json_dumps(last.out),
             ttl |-> IF last.ttl = None THEN default_ttl ELSE last.ttl.n]
       /\ last.ret = last.out

\* C13: while the store is unavailable (never connected, or its commands
\* fail), every cache_with_fallback call invokes the producer once and
\* returns exactly the producer's result, or propagates the producer's
\* exception; the store fault is never surfaced, and when the write fails
\* too the store is left as it was.
C13_OutageTransparency ==
    (IsCwf(last) /\ ~last.answered)
    => /\ last.invoked
       /\ last.ret = last.out
       /\ ~last.wrote => last.touched = {}

C13_Witness ==
    /\ IsCwf(last) /\ redis_client = "client" /\ ~last.answered
    /\ Produced(last) /\ ~last.wrote
    /\ last.ret = last.out /\ last.touched = {}

(***************************************************************************)
(* generate_cache_key on drawn arguments                                   *)
(***************************************************************************)

\* The longest parameter mapping drawn.
MaxParams == 2

ParamNames == {<<"a">>, <<"b">>, <<"c">>}

\* Values that are told apart only by their type, a value that contains the
\* two delimiters, and None.
ParamValues ==
    {PyStr(<<"1">>), PyInt(1), PyStr(<<"1", "&", "b", "=", "1">>), None}

DistinctNames(items) ==
    \A i, j \in DOMAIN items : i # j => items[i][1] # items[j][1]

\* Every keyword mapping of at most MaxParams entries, in every order.
KwargsSet ==
    UNION { {items \in [1..n -> ParamNames \X ParamValues] :
                DistinctNames(items)} : n \in 0..MaxParams }

InitKey ==
    /\ redis_client = "None"
    /\ store = <<>>
    /\ prev = NoCall
    /\ last = NoCall
    /\ coros = <<>>
    /\ input \in [op : {"generate_cache_key"}, prefix : {N_summary},
                  p1 : KwargsSet, p2 : KwargsSet]

\* generate_cache_key applied to both mappings under the same prefix.
GenerateCacheKey ==
    /\ input.op = "generate_cache_key"
    /\ last = NoCall
    /\ last' = [op |-> "generate_cache_key",
                text1 |-> param_string(input.p1),
                text2 |-> param_string(input.p2),
                key1 |-> generate_cache_key(input.prefix, input.p1),
                key2 |-> generate_cache_key(input.prefix, input.p2)]
    /\ UNCHANGED <<redis_client, store, prev, input, coros>>

NextKey == GenerateCacheKey

SpecKey == InitKey /\ [][NextKey]_vars

\* The (name, value) pairs of a mapping whose value is not None.
PresentPairs(items) ==
    {items[i] : i \in {j \in DOMAIN items : items[j][2] # None}}

Generated == last.op = "generate_cache_key"

\* C8: two mappings that hold the same (name, value) pairs once the entries
\* with a None value are dropped, in whatever order they are given, get the
\* same key under the same namespace.
C8_KeyDeterminism ==
    (Generated /\ PresentPairs(input.p1) = PresentPairs(input.p2))
    => last.key1 = last.key2

C8_Witness ==
    /\ Generated
    /\ PresentPairs(input.p1) = PresentPairs(input.p2)
    /\ Cardinality(PresentPairs(input.p1)) = 2
    /\ input.p1 # input.p2
    /\ Len(input.p1) = Len(input.p2)
    /\ last.key1 = last.key2

\* C9: two mappings that differ in a present, non-None value have different
\* canonical texts (and so, the digest being collision-free, different keys).
C9_Original ==
    (Generated /\ PresentPairs(input.p1) # PresentPairs(input.p2))
    => last.text1 # last.text2

(***************************************************************************)
(* The cached queries of routes/dashboard.py                               *)
(***************************************************************************)

\* A cached query: its key namespace and, for the distribution, its period.
Query(ns, period) == [ns |-> ns, period |-> period]

Q_summary == Query(N_summary, None)
Q_wordcloud == Query(N_wordcloud, None)
Q_timeline == Query(N_timeline, None)
Q_distribution_year == Query(N_distribution, V_year)
Q_distribution_month == Query(N_distribution, V_month)
Q_sentiment_map == Query(N_sentiment_map, None)
Q_sentiment_pie == Query(N_sentiment_pie, None)

HasName(kwargs, name) == \E i \in DOMAIN kwargs : kwargs[i][1] = name

\* The argument bound to a parameter; the optional ones default to None.
Arg(kwargs, name) ==
    IF HasName(kwargs, name)
        THEN kwargs[CHOOSE i \in DOMAIN kwargs : kwargs[i][1] = name][2]
    ELSE None

\* The parameters the get_*_cached functions take besides period.
QueryParams == {A_parent_asin, A_start_date, A_end_date, A_cities}

\* get_*_cached(**kwargs) can be called: every keyword is a parameter.
Accepts(kwargs) == \A i \in DOMAIN kwargs : kwargs[i][1] \in QueryParams

\* The key a get_*_cached function derives from its arguments.
query_cache_key(q, kwargs) ==
    generate_cache_key(q.ns,
        <<<<A_parent_asin, Arg(kwargs, A_parent_asin)>>>>
        \o (IF q.ns = N_distribution THEN <<<<A_period, q.period>>>>
            ELSE <<>>)
        \o <<<<A_start_date, Arg(kwargs, A_start_date)>>,
             <<A_end_date, Arg(kwargs, A_end_date)>>,
             <<A_cities, Arg(kwargs, A_cities)>>>>)

\* A cached query that leaves the expiry to the store client's default.
get_cached_DefaultTtl(st, q, kwargs, out, ok) ==
    cache_with_fallback(st, query_cache_key(q, kwargs), None, out, ok, ok)

\* A cached query that recomputes every time, whatever the store holds.
get_cached_Refresh(st, q, kwargs, out, ok) ==
    cache_with_fallback(st, query_cache_key(q, kwargs), PyInt(component_ttl),
                        out, FALSE, ok)

\* get_*_cached(**kwargs): cache_with_fallback under the derived key with the
\* component TTL.  ok: the server answers the commands of this call.
get_cached(st, q, kwargs, out, ok) ==
    cache_with_fallback(st, query_cache_key(q, kwargs), PyInt(component_ttl),
                        out, ok, ok)

\* asyncio.gather(*tasks, return_exceptions=True) over cached queries of one
\* argument list: the result of each task in task order, and the store after
\* all of them.  The tasks use different keys, so the order in which their
\* store commands interleave does not change the outcome.
RECURSIVE gather(_, _, _, _, _)
gather(st, tasks, kwargs, outs, ok) ==
    IF tasks = <<>> THEN [store |-> st, results |-> <<>>]
    ELSE Bind(get_cached(st, Head(tasks), kwargs, Head(outs), ok),
            LAMBDA r :
                Bind(gather(r.store, Tail(tasks), kwargs, Tail(outs), ok),
                    LAMBDA rest :
                        [store |-> rest.store,
                         results |-> <<[ret |-> r.ret, invoked |-> r.invoked,
                                        wrote |-> r.wrote]>>
                                     \o rest.results]))

(***************************************************************************)
(* CacheManager.warm_cache_for_product                                     *)
(***************************************************************************)

\* dict.update: a name that is present is rebound, a new one is appended.
RECURSIVE Update(_, _)
Update(base, other) ==
    IF other = <<>> THEN base
    ELSE Update(
            IF HasName(base, Head(other)[1])
                THEN [i \in DOMAIN base |->
                        IF base[i][1] = Head(other)[1] THEN Head(other)
                        ELSE base[i]]
            ELSE Append(base, Head(other)),
            Tail(other))

WarmingTasks ==
    <<Q_summary, Q_wordcloud, Q_timeline, Q_distribution_year,
      Q_distribution_month, Q_sentiment_map>>

\* The indices of the results that are exceptions.
Exceptions(results) == {i \in DOMAIN results : IsException(results[i].ret)}

\* A warming that gives up on the first failure: any sub-operation that
\* raises makes the report count all six as failed.
warm_cache_for_product_FailFast(st, parent_asin, date_range, outs, ok) ==
    LET base_params ==
            IF date_range # None /\ date_range.items # <<>>
                THEN Update(<<<<A_parent_asin, PyStr(parent_asin)>>>>,
                            date_range.items)
            ELSE <<<<A_parent_asin, PyStr(parent_asin)>>>>
    IN  IF ~Accepts(base_params)
            THEN [raised |-> TRUE, report |-> None, store |-> st,
                  results |-> <<>>]
        ELSE Bind(gather(st, WarmingTasks, base_params, outs, ok),
                LAMBDA g :
                    [raised |-> FALSE,
                     report |->
                        IF Exceptions(g.results) # {}
                            THEN [product |-> parent_asin, successful |-> 0,
                                  failed |-> Len(g.results),
                                  total |-> Len(g.results)]
                        ELSE [product |-> parent_asin,
                              successful |-> Len(g.results), failed |-> 0,
                              total |-> Len(g.results)],
                     store |-> g.store,
                     results |-> g.results])

\* A warming whose report counts the entries it stored.
warm_cache_for_product_CountWrites(st, parent_asin, date_range, outs, ok) ==
    LET base_params ==
            IF date_range # None /\ date_range.items # <<>>
                THEN Update(<<<<A_parent_asin, PyStr(parent_asin)>>>>,
                            date_range.items)
            ELSE <<<<A_parent_asin, PyStr(parent_asin)>>>>
    IN  IF ~Accepts(base_params)
            THEN [raised |-> TRUE, report |-> None, store |-> st,
                  results |-> <<>>]
        ELSE Bind(gather(st, WarmingTasks, base_params, outs, ok),
                LAMBDA g :
                    LET successful ==
                            Cardinality({i \in DOMAIN g.results :
                                g.results[i].wrote})
                    IN [raised |-> FALSE,
                        report |-> [product |-> parent_asin,
                                    successful |-> successful,
                                    failed |-> Len(g.results) - successful,
                                    total |-> Len(g.results)],
                        store |-> g.store,
                        results |-> g.results])

\* warm_cache_for_product(parent_asin, date_range).  date_range is None or a
\* mapping.  The six coroutines are created before the try block, so a
\* mapping that carries a keyword they do not take makes the call raise.
warm_cache_for_product(st, parent_asin, date_range, outs, ok) ==
    LET base_params ==
            IF date_range # None /\ date_range.items # <<>>
                THEN Update(<<<<A_parent_asin, PyStr(parent_asin)>>>>,
                            date_range.items)
            ELSE <<<<A_parent_asin, PyStr(parent_asin)>>>>
    IN  IF ~Accepts(base_params)
            THEN [raised |-> TRUE, report |-> None, store |-> st,
                  results |-> <<>>]
        ELSE Bind(gather(st, WarmingTasks, base_params, outs, ok),
                LAMBDA g :
                    LET successful ==
                            Cardinality({i \in DOMAIN g.results :
                                ~IsException(g.results[i].ret)})
                    IN [raised |-> FALSE,
                        report |-> [product |-> parent_asin,
                                    successful |-> successful,
                                    failed |-> Len(g.results) - successful,
                                    total |-> Len(g.results)],
                        store |-> g.store,
                        results |-> g.results])

(***************************************************************************)
(* Pattern delete and invalidation                                         *)
(***************************************************************************)

\* The server's KEYS pattern match: * is any run of characters, ? any one
\* character, a backslash quotes the next character.
RECURSIVE GlobMatch(_, _)
GlobMatch(p, s) ==
    IF p = <<>> THEN s = <<>>
    ELSE IF Head(p) = "*"
        THEN GlobMatch(Tail(p), s) \/ (s # <<>> /\ GlobMatch(p, Tail(s)))
    ELSE IF s = <<>> THEN FALSE
    ELSE IF Head(p) = "?" THEN GlobMatch(Tail(p), Tail(s))
    ELSE IF Head(p) = "\\" /\ Len(p) >= 2
        THEN p[2] = Head(s) /\ GlobMatch(SubSeq(p, 3, Len(p)), Tail(s))
    ELSE Head(p) = Head(s) /\ GlobMatch(Tail(p), Tail(s))

\* A pattern delete that empties the namespace of the pattern: every key
\* with the pattern's prefix up to the colon goes, and the count is theirs.
delete_pattern_Namespace(st, pattern, ok) ==
    IF redis_client = "None" THEN [ret |-> 0, store |-> st]
    ELSE IF ~ok THEN [ret |-> 0, store |-> st]
    ELSE LET keys == {k \in DOMAIN st : k[1] = pattern[1]} IN
         [ret |-> Cardinality(keys),
          store |-> [k \in DOMAIN st \ keys |-> st[k]]]

\* RedisConfig.delete_pattern(pattern): the count it returns and the store
\* after.  ok: the server answered KEYS and DEL; an error of either is caught
\* and gives 0 with nothing deleted.
delete_pattern(st, pattern, ok) ==
    IF redis_client = "None" THEN [ret |-> 0, store |-> st]
    ELSE IF ~ok THEN [ret |-> 0, store |-> st]
    ELSE LET keys == {k \in DOMAIN st : GlobMatch(pattern, k)} IN
         [ret |-> Cardinality(keys),
          store |-> [k \in DOMAIN st \ keys |-> st[k]]]

\* The patterns of RedisConfig.invalidate_product_cache, in order.
InvalidationPatterns(parent_asin) ==
    [i \in 1..6 |->
        <<N_dashboard, N_summary, N_wordcloud, N_timeline, N_distribution,
          N_sentiment_map>>[i] \o <<":", "*">> \o parent_asin \o <<"*">>]

RECURSIVE DeletePatterns(_, _, _)
DeletePatterns(st, patterns, oks) ==
    IF patterns = <<>> THEN [ret |-> 0, store |-> st]
    ELSE Bind(delete_pattern(st, Head(patterns), Head(oks)),
            LAMBDA d :
                Bind(DeletePatterns(d.store, Tail(patterns), Tail(oks)),
                    LAMBDA rest :
                        [ret |-> d.ret + rest.ret, store |-> rest.store]))

\* RedisConfig.invalidate_product_cache(parent_asin): the total it returns.
redis_invalidate_product_cache(st, parent_asin, oks) ==
    DeletePatterns(st, InvalidationPatterns(parent_asin), oks)

\* CacheManager.invalidate_product_cache(parent_asin): the report.  The call
\* it wraps catches every store error itself, so the error report of the
\* except branch is never built.
invalidate_product_cache(st, parent_asin, oks) ==
    LET r == redis_invalidate_product_cache(st, parent_asin, oks) IN
    [report |-> [product |-> parent_asin, deleted_keys |-> r.ret,
                 status |-> "success"],
     store |-> r.store]

(***************************************************************************)
(* Warming and invalidation as requests                                    *)
(***************************************************************************)

Mapping(items) == [t |-> "mapping", items |-> items]

\* The date_range argument: None, which the warm route passes when it is
\* given no dates, and a mapping with a keyword that the cached queries do
\* not take, which a direct caller of warm_cache_for_product can pass.
DateRanges == {None, Mapping(<<<<A_period, V_year>>>>)}

\* Which of the six producers raise (the others return a value): the first
\* k, for every k.
FailureSets == {1..k : k \in 0..6}

ProducerOutcomes == {[i \in 1..6 |-> IF i \in F THEN Exc(i) ELSE Dict(1)] :
                        F \in FailureSets}

\* The ids invalidated: the product, and the id made of the wildcard.
InvalidatedIds == {ProductA, <<"*">>}

\* Which pattern deletes the server answers: all, none, all but the first.
AnsweredSets == {1..6, {}, 2..6}

\* One call of CacheManager.warm_cache_for_product, as made by
\* POST /api/dashboard/cache/warm/{parent_asin}.
Warm(parent_asin, date_range, outs, ok) ==
    /\ Serving
    /\ \E r \in {warm_cache_for_product(store, parent_asin, date_range,
                                         outs, ok)} :
        /\ store' = r.store
        /\ last' = [op |-> "warm", product |-> parent_asin,
                    date_range |-> date_range,
                    answered |-> redis_client = "client" /\ ok,
                    raised |-> r.raised, report |-> r.report,
                    failed |-> {i \in DOMAIN r.results :
                                    /\ r.results[i].invoked
                                    /\ IsException(outs[i])},
                    nulls |-> {i \in DOMAIN r.results :
                                    /\ r.results[i].invoked
                                    /\ outs[i] = None},
                    invoked |-> {i \in DOMAIN r.results :
                                    r.results[i].invoked}]
    /\ prev' = Brief(last)
    /\ UNCHANGED <<redis_client, input, coros>>

\* GET /api/dashboard/cache/invalidate/{parent_asin}
Invalidate(parent_asin, answered) ==
    /\ Serving
    /\ \E r \in {invalidate_product_cache(store, parent_asin,
                                           [i \in 1..6 |-> i \in answered])} :
        /\ store' = r.store
        /\ last' = [op |-> "invalidate", product |-> parent_asin,
                    answered |-> redis_client = "client" /\ answered = 1..6,
                    errors |-> IF redis_client = "client"
                                  THEN (1..6) \ answered ELSE {},
                    report |-> r.report,
                    touched |-> Touched(store, r.store)]
    /\ prev' = Brief(last)
    /\ UNCHANGED <<redis_client, input, coros>>

\* A warm request that ran its six sub-operations and returned a report.
Warmed(r) == r.op = "warm" /\ ~r.raised

\* C2: after invalidate_product_cache(id) has returned, the next cached query
\* for any aggregate of product id is a miss: a warm request for id that
\* follows an invalidation the server answered invokes all six producers
\* afresh.
C2_Original ==
    (/\ prev.op = "invalidate" /\ prev.answered
     /\ Warmed(last) /\ last.product = prev.product)
    => last.invoked = 1..6

\* C10: when exactly k of the six warming sub-operations fail with an
\* exception, for any k in 0..6, warm_cache_for_product returns a report
\* with failed = k, successful = 6 - k and total = 6.
C10_PartialTolerance ==
    Warmed(last)
    => /\ last.report.failed = Cardinality(last.failed)
       /\ last.report.successful = 6 - Cardinality(last.failed)
       /\ last.report.total = 6

C10_Witness ==
    /\ Warmed(last)
    /\ Cardinality(last.failed) = 2
    /\ last.report.failed = 2 /\ last.report.successful = 4

\* C11: when the fan-out cannot be set up (the date_range mapping carries a
\* name the sub-operations do not accept), warm_cache_for_product does not
\* propagate the error but returns a report with successful = 0, failed = 6
\* and an error message.
C11_Original ==
    (/\ last.op = "warm" /\ last.date_range # None
     /\ ~Accepts(last.date_range.items))
    => /\ ~last.raised
       /\ last.report.successful = 0
       /\ last.report.failed = 6

\* C14: a store failure on one of the six pattern deletes does not prevent
\* the remaining patterns from being processed, and whenever a pattern
\* delete failed with an error the report has status 'error'.
C14_Original ==
    (last.op = "invalidate" /\ redis_client = "client")
    => /\ \A i \in (1..6) \ last.errors : \A k \in DOMAIN store :
            ~GlobMatch(InvalidationPatterns(last.product)[i], k)
       /\ last.errors # {} => last.report.status = "error"

\* The keys under which the cached queries of a product without filters
\* are stored.
ProductKeys(parent_asin) ==
    {query_cache_key(WarmingTasks[i],
        <<<<A_parent_asin, PyStr(parent_asin)>>>>) : i \in 1..6}

\* C28: invalidate_product_cache(id) removes only entries that belong to
\* product id: for another product id2, every entry cached for id2 is still
\* present with the same value afterwards.
C28_Original ==
    (last.op = "invalidate" /\ last.product # ProductA)
    => last.touched \cap ProductKeys(ProductA) = {}

\* C30: the warming report counts outcomes, not stored entries: with the
\* store disconnected warm_cache_for_product invokes all six producers and
\* writes no entry, every sub-operation whose producer did not raise counts
\* as successful, and with all six producers succeeding the report is
\* successful = 6, failed = 0, total = 6.
C30_ReportCountsOutcomes ==
    (Warmed(last) /\ redis_client = "None")
    => /\ last.invoked = 1..6
       /\ store = <<>>
       /\ last.report.successful = Cardinality((1..6) \ last.failed)
       /\ last.failed = {}
            => last.report = [product |-> last.product, successful |-> 6,
                              failed |-> 0, total |-> 6]

\* A warming without a store whose six producers all returned a value.
C30_Witness ==
    /\ Warmed(last) /\ redis_client = "None"
    /\ last.failed = {} /\ last.invoked = 1..6
    /\ last.report.successful = 6 /\ store = <<>>

NextWarm ==
    \/ \E ok \in BOOLEAN : Connect(ok)
    \/ \E date_range \in DateRanges, outs \in ProducerOutcomes,
          ok \in BOOLEAN : Warm(ProductA, date_range, outs, ok)
    \/ \E id \in InvalidatedIds, answered \in AnsweredSets :
            Invalidate(id, answered)
    \/ \E key \in DOMAIN store : Expire(key)

SpecWarm == Init /\ [][NextWarm]_vars

(***************************************************************************)
(* The composite dashboard endpoints                                       *)
(***************************************************************************)

ProductDashboardTasks ==
    <<Q_summary, Q_wordcloud, Q_timeline, Q_distribution_year,
      Q_sentiment_map, Q_sentiment_pie>>

\* The body the two endpoints share, for a request without filters: look the
\* composite up, and on a miss gather the six cached queries, put None in
\* the place of each one that raised, store the composite with the default
\* TTL and return it.
Composite(st, ns, tasks, parent_asin, outs, ok) ==
    LET kwargs == <<<<A_parent_asin, PyStr(parent_asin)>>>>
        cache_key ==
            generate_cache_key(ns,
                kwargs \o <<<<A_start_date, None>>, <<A_end_date, None>>,
                            <<A_cities, None>>>>)
    IN  Bind(RedisGet(st, cache_key, ok),
            LAMBDA cached_data :
                IF Truthy(cached_data)
                    THEN [ret |-> cached_data, store |-> st,
                          results |-> <<>>, wrote |-> FALSE]
                ELSE Bind(gather(st, tasks, kwargs, outs, ok),
                        LAMBDA g :
                            LET dashboard_data ==
                                    Dashboard(ns,
                                        [i \in DOMAIN g.results |->
                                            IF IsException(g.results[i].ret)
                                                THEN None
                                            ELSE g.results[i].ret],
                                        Cardinality(Exceptions(g.results)))
                                w == RedisSet(g.store, cache_key,
                                              dashboard_data,
                                              PyInt(default_ttl), ok)
                            IN [ret |-> dashboard_data, store |-> w.store,
                                results |-> g.results, wrote |-> w.ret]))

get_comprehensive_dashboard(st, parent_asin, outs, ok) ==
    Composite(st, N_dashboard, WarmingTasks, parent_asin, outs, ok)

get_product_comprehensive_dashboard(st, parent_asin, outs, ok) ==
    Composite(st, N_product_dashboard, ProductDashboardTasks, parent_asin,
              outs, ok)

\* What a composite request leaves in the history.
Served(op, parent_asin, outs, ok, r) ==
    [op |-> op, product |-> parent_asin,
     answered |-> redis_client = "client" /\ ok,
     failed |-> {i \in DOMAIN r.results :
                    r.results[i].invoked /\ IsException(outs[i])},
     wrote |-> r.wrote, ret |-> r.ret]

\* GET /api/dashboard/comprehensive
ComprehensiveDashboard(parent_asin, outs, ok) ==
    /\ Serving
    /\ \E r \in {get_comprehensive_dashboard(store, parent_asin, outs, ok)} :
        /\ store' = r.store
        /\ last' = Served("dashboard", parent_asin, outs, ok, r)
    /\ prev' = Brief(last)
    /\ UNCHANGED <<redis_client, input, coros>>

\* GET /api/dashboard/product-comprehensive
ProductComprehensiveDashboard(parent_asin, outs, ok) ==
    /\ Serving
    /\ \E r \in {get_product_comprehensive_dashboard(store, parent_asin,
                                                     outs, ok)} :
        /\ store' = r.store
        /\ last' = Served("product_dashboard", parent_asin, outs, ok, r)
    /\ prev' = Brief(last)
    /\ UNCHANGED <<redis_client, input, coros>>

NextDash ==
    \/ \E ok \in BOOLEAN : Connect(ok)
    \/ \E outs \in ProducerOutcomes, ok \in BOOLEAN :
            ComprehensiveDashboard(ProductA, outs, ok)
    \/ \E outs \in ProducerOutcomes, ok \in BOOLEAN :
            ProductComprehensiveDashboard(ProductA, outs, ok)
    \/ \E id \in InvalidatedIds : Invalidate(id, 1..6)

SpecDash == Init /\ [][NextDash]_vars

\* C7: no store entry holds a sentinel or partial value that results from a
\* producer failure: no composite with a placeholder (null) component, or
\* with a non-zero count of partial failures, is held in the store.
C7_Original ==
    \A k \in DOMAIN store :
        LET v == json_loads(store[k].data) IN
        v.t = "dashboard"
        => /\ v.partial_failures = 0
           /\ \A i \in DOMAIN v.comps : v.comps[i] # None

\* The namespace of a key: the text before its first colon.
Namespace(k) ==
    SubSeq(k, 1, (CHOOSE i \in DOMAIN k :
                    k[i] = ":" /\ \A j \in 1..(i - 1) : k[j] # ":") - 1)

ComponentNamespaces ==
    {N_summary, N_wordcloud, N_timeline, N_distribution, N_sentiment_map,
     N_sentiment_pie}

CompositeNamespaces == {N_dashboard, N_product_dashboard}

\* C27: in every reachable store state, every entry of a sub-query namespace
\* carries the component TTL (1800 s) and every composite dashboard entry
\* carries the default TTL (600 s), the default being strictly shorter.
C27_TtlClasses ==
    /\ default_ttl < component_ttl
    /\ component_ttl = 1800 /\ default_ttl = 600
    /\ \A k \in DOMAIN store :
        /\ Namespace(k) \in ComponentNamespaces \cup CompositeNamespaces
        /\ Namespace(k) \in ComponentNamespaces
            => store[k].ttl = component_ttl
        /\ Namespace(k) \in CompositeNamespaces
            => store[k].ttl = default_ttl

\* The store holds a sub-query entry and a composite entry.
C27_Witness ==
    /\ \E k \in DOMAIN store :
        Namespace(k) = N_sentiment_pie /\ store[k].ttl = component_ttl
    /\ \E k \in DOMAIN store :
        Namespace(k) = N_product_dashboard /\ store[k].ttl = default_ttl

(***************************************************************************)
(* The store client's operations and bulk invalidation, called directly    *)
(***************************************************************************)

\* A hit rate cut to two decimals instead of rounded.
calculate_hit_rate_Truncated(hits, misses) ==
    IF hits + misses = 0 THEN 0
    ELSE (10000 * hits) \div (hits + misses)

\* RedisConfig._calculate_hit_rate(hits, misses): round((hits / total) * 100,
\* 2), in hundredths of a percent.  round() takes the nearest hundredth and,
\* when the double lies halfway between two, the even one; halfway values
\* are multiples of 1/8 and for totals up to 2 * (MaxCount + 1) the double
\* product is exact there.
calculate_hit_rate(hits, misses) ==
    LET total == hits + misses
        q == (10000 * hits) \div total
        r == (10000 * hits) % total
    IN  IF total = 0 THEN 0
        ELSE IF 2 * r < total THEN q
        ELSE IF 2 * r > total THEN q + 1
        ELSE IF q % 2 = 0 THEN q ELSE q + 1

\* The server's INFO reply, as far as get_cache_stats reads it.
Info(hits, misses, clients) ==
    [keyspace_hits |-> hits, keyspace_misses |-> misses,
     connected_clients |-> clients]

\* RedisConfig.get_cache_stats().  ok: the server answered INFO with info.
get_cache_stats(info, ok) ==
    IF redis_client = "None" THEN [status |-> "disconnected"]
    ELSE IF ~ok THEN [status |-> "error"]
    ELSE [status |-> "connected",
          connected_clients |-> info.connected_clients,
          keyspace_hits |-> info.keyspace_hits,
          keyspace_misses |-> info.keyspace_misses,
          hit_rate |-> calculate_hit_rate(info.keyspace_hits,
                                          info.keyspace_misses)]

\* The loop of bulk_invalidate_cache: the per-product reports in list order,
\* the running total and the store after.
RECURSIVE BulkLoop(_, _, _)
BulkLoop(st, parent_asins, oks) ==
    IF parent_asins = <<>>
        THEN [results |-> <<>>, total_deleted |-> 0, store |-> st]
    ELSE Bind(invalidate_product_cache(st, Head(parent_asins), Head(oks)),
            LAMBDA r :
                Bind(BulkLoop(r.store, Tail(parent_asins), Tail(oks)),
                    LAMBDA rest :
                        [results |-> <<r.report>> \o rest.results,
                         total_deleted |->
                            r.report.deleted_keys + rest.total_deleted,
                         store |-> rest.store]))

\* A bulk invalidation that stops after the first product.
bulk_invalidate_cache_FirstOnly(st, parent_asins, oks) ==
    Bind(IF parent_asins = <<>> THEN BulkLoop(st, <<>>, <<>>)
         ELSE BulkLoop(st, <<Head(parent_asins)>>, <<Head(oks)>>),
        LAMBDA b :
            [report |-> [total_products |-> Len(parent_asins),
                         total_deleted_keys |-> b.total_deleted,
                         results |-> b.results],
             store |-> b.store])

\* CacheManager.bulk_invalidate_cache(parent_asins).  oks[i][j]: the server
\* answers the j-th pattern delete of the i-th product.
bulk_invalidate_cache(st, parent_asins, oks) ==
    Bind(BulkLoop(st, parent_asins, oks),
        LAMBDA b :
            [report |-> [total_products |-> Len(parent_asins),
                         total_deleted_keys |-> b.total_deleted,
                         results |-> b.results],
             store |-> b.store])

\* The longest list of products invalidated in bulk.
MaxIds == 2

IdLists == UNION {[1..n -> InvalidatedIds] : n \in 0..MaxIds}

\* The values and expiries written directly.
SetValues == {Dict(1)}
SetTtls == {None, PyInt(60)}

\* The patterns deleted directly: one that matches every summary key, and
\* the summary pattern of the product.
Patterns == {N_summary \o <<":", "*">>, InvalidationPatterns(ProductA)[2]}

\* The INFO replies drawn.
Infos == {Info(h, m, c) : h \in {0, 3}, m \in {0, 1}, c \in {0, 1}}

\* RedisConfig.disconnect(): closes the connection and keeps the handle.
Disconnect ==
    /\ Serving
    /\ last' = [op |-> "disconnect", held |-> redis_client # "None"]
    /\ prev' = Brief(last)
    /\ UNCHANGED <<redis_client, store, input, coros>>

\* One call of RedisConfig.get.
Get(key, ok) ==
    /\ Serving
    /\ last' = [op |-> "get", key |-> key, ret |-> RedisGet(store, key, ok),
                touched |-> {}]
    /\ prev' = Brief(last)
    /\ UNCHANGED <<redis_client, store, input, coros>>

\* One call of RedisConfig.set.
Set(key, value, ttl, ok) ==
    /\ Serving
    /\ \E r \in {RedisSet(store, key, value, ttl, ok)} :
        /\ store' = r.store
        /\ last' = [op |-> "set", key |-> key, value |-> value,
                    ret |-> r.ret, touched |-> Touched(store, r.store)]
    /\ prev' = Brief(last)
    /\ UNCHANGED <<redis_client, input, coros>>

\* One call of RedisConfig.delete_pattern.
DeletePattern(pattern, ok) ==
    /\ Serving
    /\ \E r \in {delete_pattern(store, pattern, ok)} :
        /\ store' = r.store
        /\ last' = [op |-> "delete_pattern", pattern |-> pattern,
                    answered |-> redis_client = "client" /\ ok,
                    ret |-> r.ret, touched |-> Touched(store, r.store)]
    /\ prev' = Brief(last)
    /\ UNCHANGED <<redis_client, input, coros>>

\* One call of RedisConfig.get_cache_stats.
GetCacheStats(info, ok) ==
    /\ Serving
    /\ last' = [op |-> "get_cache_stats",
                answered |-> redis_client = "client" /\ ok,
                ret |-> get_cache_stats(info, ok), touched |-> {}]
    /\ prev' = Brief(last)
    /\ UNCHANGED <<redis_client, store, input, coros>>

\* One call of CacheManager.bulk_invalidate_cache.
BulkInvalidate(parent_asins, answered) ==
    /\ Serving
    /\ \E r \in {bulk_invalidate_cache(store, parent_asins,
                    [i \in DOMAIN parent_asins |->
                        [j \in 1..6 |-> j \in answered[i]]])} :
        /\ store' = r.store
        /\ last' = [op |-> "bulk_invalidate_cache", ids |-> parent_asins,
                    report |-> r.report,
                    touched |-> Touched(store, r.store)]
    /\ prev' = Brief(last)
    /\ UNCHANGED <<redis_client, input, coros>>

NextAdmin ==
    \/ \E ok \in BOOLEAN : Connect(ok)
    \/ Disconnect
    \/ \E key \in CallKeys, ok \in BOOLEAN : Get(key, ok)
    \/ \E key \in CallKeys, value \in SetValues, ttl \in SetTtls,
          ok \in BOOLEAN : Set(key, value, ttl, ok)
    \/ \E key \in CallKeys, ok \in BOOLEAN : Delete(key, ok)
    \/ \E pattern \in Patterns, ok \in BOOLEAN : DeletePattern(pattern, ok)
    \/ \E info \in Infos, ok \in BOOLEAN : GetCacheStats(info, ok)
    \/ \E parent_asins \in IdLists :
        \E answered \in [DOMAIN parent_asins -> AnsweredSets] :
            BulkInvalidate(parent_asins, answered)

SpecAdmin == Init /\ [][NextAdmin]_vars

\* C12: in every state in which no connection has been established (the
\* client handle is absent), get returns None, set returns False, delete
\* returns False, delete_pattern returns 0 and get_cache_stats returns status
\* 'disconnected', for all arguments, and none of them changes any state.
C12_DisconnectedSoftFail ==
    redis_client = "None"
    => /\ last.op = "get" => last.ret = None /\ last.touched = {}
       /\ last.op = "set" => last.ret = FALSE /\ last.touched = {}
       /\ last.op = "delete" => last.ret = FALSE /\ last.touched = {}
       /\ last.op = "delete_pattern" => last.ret = 0 /\ last.touched = {}
       /\ last.op = "get_cache_stats"
            => last.ret = [status |-> "disconnected"] /\ last.touched = {}
       /\ store = <<>>

C12_Witness ==
    /\ redis_client = "None" /\ prev.op = "get_cache_stats"
    /\ last.op = "set" /\ last.ret = FALSE /\ store = <<>>

\* The sum of the deleted_keys counts of per-product reports.
RECURSIVE SumDeleted(_)
SumDeleted(results) ==
    IF results = <<>> THEN 0
    ELSE Head(results).deleted_keys + SumDeleted(Tail(results))

BulkCall == last.op = "bulk_invalidate_cache"

\* C15: bulk_invalidate_cache(ids) invalidates every id of the list in list
\* order, duplicates included, and returns total_products = the length of
\* ids, one result per list element in the same order, and
\* total_deleted_keys = the sum of the per-product deleted_keys counts, which
\* is the number of entries that left the store.
C15_BulkInvalidation ==
    BulkCall
    => /\ last.report.total_products = Len(last.ids)
       /\ Len(last.report.results) = Len(last.ids)
       /\ \A i \in DOMAIN last.ids :
            last.report.results[i].product = last.ids[i]
       /\ last.report.total_deleted_keys = SumDeleted(last.report.results)
       /\ last.report.total_deleted_keys = Cardinality(last.touched)

\* The same id twice: the first invalidation deleted nothing, the second
\* went on and deleted the entries.
C15_Witness ==
    /\ BulkCall /\ Len(last.ids) = 2 /\ last.ids[1] = last.ids[2]
    /\ last.report.results[1].deleted_keys = 0
    /\ last.report.results[2].deleted_keys > 0
    /\ last.report.total_deleted_keys = Cardinality(last.touched)

\* Calls that use the store, as opposed to connect and disconnect.
StoreCall ==
    last.op \in {"get", "set", "delete", "delete_pattern", "get_cache_stats",
                 "bulk_invalidate_cache"}

\* C16: if connect() fails, the handle is left absent and the failure is
\* raised to the caller; start-up catches it and goes on to serve, and every
\* later cache operation behaves as a disconnected soft failure: it returns
\* without touching the store, a get with None, a set or delete with False,
\* a pattern delete with 0, a bulk invalidation with no deleted keys.
C16_ConnectFailure ==
    /\ (last.op = "connect" /\ last.raised) => redis_client = "None"
    /\ (redis_client = "None" /\ StoreCall)
        => /\ last.touched = {}
           /\ last.op = "get" => last.ret = None
           /\ last.op \in {"set", "delete"} => last.ret = FALSE
           /\ last.op = "delete_pattern" => last.ret = 0
           /\ last.op = "get_cache_stats" => last.ret.status = "disconnected"
           /\ BulkCall => last.report.total_deleted_keys = 0

\* Start-up went on after the failed connect and a later get was served.
C16_Witness ==
    /\ redis_client = "None" /\ prev.op = "connect"
    /\ last.op = "get" /\ last.ret = None

\* C17: get_cache_stats() returns status 'disconnected' in every state in
\* which the client is not connected to the store (never connected, connect
\* failed, connection lost after a successful connect, or after disconnect()
\* has been called), and status 'connected' only when the store answered
\* the stats query.
C17_Original ==
    last.op = "get_cache_stats"
    => /\ (\/ redis_client = "None"
           \/ ~last.answered
           \/ prev.op = "disconnect")
            => last.ret.status = "disconnected"
       /\ last.ret.status = "connected" => last.answered

PatternDeleted == last.op = "delete_pattern"

\* C25: delete_pattern(p) returns the number of entries it removed, removes
\* exactly the entries whose key matches p when the server answers, returns
\* 0 and removes nothing when the store is disconnected, when no key matches
\* or when a store command fails, and leaves every entry whose key does not
\* match p unchanged.
C25_PatternDelete ==
    PatternDeleted
    => /\ last.ret = Cardinality(last.touched)
       /\ last.touched \cap DOMAIN store = {}
       /\ \A k \in last.touched : GlobMatch(last.pattern, k)
       /\ last.answered
            => \A k \in DOMAIN store : ~GlobMatch(last.pattern, k)
       /\ ~last.answered => (last.ret = 0 /\ last.touched = {})

\* A pattern delete that removed the summary entry and left the timeline
\* entry in the store.
C25_Witness ==
    /\ PatternDeleted /\ last.ret = 1
    /\ \E k \in last.touched : GlobMatch(N_summary \o <<":", "*">>, k)
    /\ \E k \in DOMAIN store : GlobMatch(N_timeline \o <<":", "*">>, k)

(***************************************************************************)
(* Entries that cannot be decoded and values that cannot be encoded        *)
(***************************************************************************)

\* What a producer returns here: a dict, or a value json.dumps rejects.
CodecOutcomes == {Dict(1), Cyclic, None}

\* Another program writes data that is not JSON under a key of the cache.
ForeignWrite(key) ==
    /\ Serving /\ redis_client = "client"
    /\ store' = Setex(store, key, default_ttl, Corrupt)
    /\ prev' = Brief(last)
    /\ last' = [op |-> "foreign_write", key |-> key]
    /\ UNCHANGED <<redis_client, input, coros>>

NextCodec ==
    \/ \E ok \in BOOLEAN : Connect(ok)
    \/ \E key \in CallKeys : ForeignWrite(key)
    \/ \E key \in CallKeys, ok \in BOOLEAN : Get(key, ok)
    \/ \E key \in CallKeys, value \in CodecOutcomes \ {None},
          ok \in BOOLEAN : Set(key, value, None, ok)
    \/ \E key \in CallKeys, out \in CodecOutcomes, getOk \in BOOLEAN,
          setOk \in BOOLEAN :
            CacheWithFallback(key, PyInt(component_ttl), out, getOk, setOk)

SpecCodec == Init /\ [][NextCodec]_vars

\* The entry is there and its data is not JSON.
Undecodable(entry) == entry # NoEntry /\ ~Decodable(entry.data)

\* C26: a stored entry that cannot be decoded makes get return None, and
\* cache_with_fallback treats it as a miss: it invokes the producer, returns
\* its value and, when its set writes, replaces the entry by that value.  A
\* value that cannot be encoded makes set return False without writing, and
\* cache_with_fallback still returns the producer's value.
C26_SerializationSoftFail ==
    /\ (last.op = "get" /\ Undecodable(Lookup(store, last.key)))
        => last.ret = None
    /\ (IsCwf(last) /\ Undecodable(last.held))
        => /\ last.invoked /\ last.ret = last.out
           /\ last.wrote
                => Lookup(store, last.key).data = json_dumps(last.out)
           /\ (last.out = Dict(1) /\ ~last.wrote)
                => Lookup(store, last.key) = last.held
    /\ (last.op = "set" /\ ~Encodable(last.value))
        => (last.ret = FALSE /\ last.touched = {})
    /\ (IsCwf(last) /\ last.invoked /\ last.out = Cyclic)
        => (last.ret = Cyclic /\ ~last.wrote /\ last.touched = {})

\* An undecodable entry was replaced by the producer's value.
C26_Witness ==
    /\ IsCwf(last) /\ Undecodable(last.held)
    /\ last.invoked /\ last.wrote /\ last.ret = Dict(1)
    /\ Lookup(store, last.key).data = json_dumps(Dict(1))

(***************************************************************************)
(* The metric helpers of CacheManager, on drawn arguments                  *)
(***************************************************************************)

\* c in s, for a character c.
Contains(s, c) == \E i \in DOMAIN s : s[i] = c

\* s.replace(c, ""): every occurrence of c is removed.
Remove(s, c) == SelectSeq(s, LAMBDA x : x # c)

Digits == {"0", "1", "2", "3", "4", "5", "6", "7", "8", "9"}

\* The number a run of decimal digits denotes.
RECURSIVE DecValue(_)
DecValue(ds) ==
    IF ds = <<>> THEN 0
    ELSE 10 * DecValue(SubSeq(ds, 1, Len(ds) - 1))
         + (Ord(ds[Len(ds)]) - Ord("0"))

\* float(t) for a text of digits, points and letters: it is a number when it
\* is a run of digits with at most one point and at least one digit, and
\* raises ValueError otherwise.  whole is the part before the point, frac
\* tells whether the part after it is more than zero.
ParseFloat(t) ==
    LET points == {i \in DOMAIN t : t[i] = "."}
        p == IF points = {} THEN Len(t) + 1 ELSE CHOOSE i \in points : TRUE
    IN  IF /\ \A i \in DOMAIN t : t[i] \in Digits \cup {"."}
           /\ Cardinality(points) <= 1
           /\ \E i \in DOMAIN t : t[i] \in Digits
            THEN [ok |-> TRUE,
                  whole |-> DecValue(SubSeq(t, 1, p - 1)),
                  frac |-> \E i \in DOMAIN t : i > p /\ t[i] # "0"]
        ELSE [ok |-> FALSE]

\* value > n for a parsed number and an integer n.
Greater(v, n) == v.whole > n \/ (v.whole = n /\ v.frac)

\* CacheManager._categorize_memory_usage(memory_str)
categorize_memory_usage(memory_str) ==
    IF Contains(memory_str, "M")
        THEN LET value == ParseFloat(Remove(memory_str, "M")) IN
             IF ~value.ok THEN "unknown"
             ELSE IF Greater(value, 100) THEN "high"
             ELSE IF Greater(value, 50) THEN "medium"
             ELSE "low"
    ELSE IF Contains(memory_str, "K") THEN "low"
    ELSE IF Contains(memory_str, "G") THEN "high"
    ELSE "unknown"

\* A hit rate is a percentage with two decimals, counted in hundredths.
Pct(n) == 100 * n

\* stats.get(name, 0)
StatsGet(stats, name) == IF name \in DOMAIN stats THEN stats[name] ELSE 0

\* Tiers with strict thresholds.
calculate_cache_efficiency_Strict(stats) ==
    LET hit_rate == StatsGet(stats, "hit_rate") IN
    IF hit_rate > Pct(80) THEN "excellent"
    ELSE IF hit_rate > Pct(60) THEN "good"
    ELSE IF hit_rate > Pct(40) THEN "fair"
    ELSE "poor"

\* CacheManager._calculate_cache_efficiency(stats)
calculate_cache_efficiency(stats) ==
    LET hit_rate == StatsGet(stats, "hit_rate") IN
    IF hit_rate >= Pct(80) THEN "excellent"
    ELSE IF hit_rate >= Pct(60) THEN "good"
    ELSE IF hit_rate >= Pct(40) THEN "fair"
    ELSE "poor"

\* An assessment that does not look at the number of clients.
assess_performance_status_AnyClients(stats) ==
    IF stats.status # "connected" THEN "offline"
    ELSE LET hit_rate == StatsGet(stats, "hit_rate") IN
         IF hit_rate >= Pct(70) THEN "optimal"
         ELSE IF hit_rate >= Pct(50) THEN "good"
         ELSE IF hit_rate >= Pct(30) THEN "degraded"
         ELSE "poor"

\* CacheManager._assess_performance_status(stats)
assess_performance_status(stats) ==
    IF stats.status # "connected" THEN "offline"
    ELSE LET hit_rate == StatsGet(stats, "hit_rate")
             connected_clients == StatsGet(stats, "connected_clients")
         IN  IF hit_rate >= Pct(70) /\ connected_clients > 0 THEN "optimal"
             ELSE IF hit_rate >= Pct(50) THEN "good"
             ELSE IF hit_rate >= Pct(30) THEN "degraded"
             ELSE "poor"

\* The longest memory text drawn, and the characters it is made of.
MaxMemLen == 4
MemChars == {"0", "1", "5", ".", "M", "K", "G", "x"}
MemoryStrings == UNION {[1..n -> MemChars] : n \in 1..MaxMemLen}

\* The most clients a stats record reports.
MaxClients == 2

\* The largest hit or miss counter drawn.
MaxCount == 80

\* The stats records get_cache_stats can return.
StatsRecords ==
    {[status |-> "disconnected"], [status |-> "error"]}
    \cup [status : {"connected"}, hit_rate : 0..Pct(100),
          connected_clients : 0..MaxClients]

InitMetrics ==
    /\ redis_client = "None"
    /\ store = <<>>
    /\ prev = NoCall
    /\ last = NoCall
    /\ coros = <<>>
    /\ input \in [op : {"memory"}, memory_str : MemoryStrings]
                 \cup [op : {"stats"}, stats : StatsRecords]
                 \cup [op : {"counters"}, hits : 0..MaxCount,
                       misses : 0..MaxCount]

CategorizeMemoryUsage ==
    /\ input.op = "memory" /\ last = NoCall
    /\ last' = [op |-> "categorize_memory_usage",
                ret |-> categorize_memory_usage(input.memory_str)]
    /\ UNCHANGED <<redis_client, store, prev, input, coros>>

CalculateCacheEfficiency ==
    /\ input.op = "stats" /\ last = NoCall
    /\ last' = [op |-> "calculate_cache_efficiency",
                ret |-> calculate_cache_efficiency(input.stats)]
    /\ UNCHANGED <<redis_client, store, prev, input, coros>>

AssessPerformanceStatus ==
    /\ input.op = "stats" /\ last = NoCall
    /\ last' = [op |-> "assess_performance_status",
                ret |-> assess_performance_status(input.stats)]
    /\ UNCHANGED <<redis_client, store, prev, input, coros>>

CalculateHitRate ==
    /\ input.op = "counters" /\ last = NoCall
    /\ last' = [op |-> "calculate_hit_rate",
                ret |-> calculate_hit_rate(input.hits, input.misses)]
    /\ UNCHANGED <<redis_client, store, prev, input, coros>>

NextMetrics ==
    \/ CalculateHitRate
    \/ CategorizeMemoryUsage
    \/ CalculateCacheEfficiency
    \/ AssessPerformanceStatus

SpecMetrics == InitMetrics /\ [][NextMetrics]_vars

\* The text is a number followed by the suffix.
NumberWith(s, suffix) ==
    /\ Len(s) >= 2 /\ s[Len(s)] = suffix
    /\ ParseFloat(SubSeq(s, 1, Len(s) - 1)).ok

Categorized == last.op = "categorize_memory_usage"

\* C18: for every input string, _categorize_memory_usage returns 'high',
\* 'medium' or 'low' for a number followed by M according to value > 100,
\* value > 50 or otherwise, 'low' for a number followed by K, 'high' for a
\* number followed by G, and 'unknown' for every other string.
C18_Original ==
    Categorized
    => LET s == input.memory_str
           value == ParseFloat(SubSeq(s, 1, Len(s) - 1))
       IN  IF NumberWith(s, "M")
               THEN last.ret = IF Greater(value, 100) THEN "high"
                               ELSE IF Greater(value, 50) THEN "medium"
                               ELSE "low"
           ELSE IF NumberWith(s, "K") THEN last.ret = "low"
           ELSE IF NumberWith(s, "G") THEN last.ret = "high"
           ELSE last.ret = "unknown"

Tiered == last.op = "calculate_cache_efficiency"

\* C19: for every hit rate h in 0..100, _calculate_cache_efficiency returns
\* 'excellent' iff h >= 80, 'good' iff 60 <= h < 80, 'fair' iff
\* 40 <= h < 60 and 'poor' iff h < 40; a stats record without a hit rate
\* (disconnected or error) is classified 'poor'.
C19_EfficiencyTier ==
    Tiered
    => IF "hit_rate" \in DOMAIN input.stats
           THEN LET h == input.stats.hit_rate IN
                /\ last.ret = "excellent" <=> h >= Pct(80)
                /\ last.ret = "good" <=> (Pct(60) <= h /\ h < Pct(80))
                /\ last.ret = "fair" <=> (Pct(40) <= h /\ h < Pct(60))
                /\ last.ret = "poor" <=> h < Pct(40)
       ELSE last.ret = "poor"

\* A hit rate of exactly 80 is classified 'excellent'.
C19_Witness ==
    /\ Tiered /\ input.stats.status = "connected"
    /\ input.stats.hit_rate = Pct(80) /\ last.ret = "excellent"

Assessed == last.op = "assess_performance_status"

\* C20: for every stats record, _assess_performance_status returns 'offline'
\* iff status # 'connected'; otherwise 'optimal' iff hit_rate >= 70 and
\* connected_clients > 0, else 'good' iff hit_rate >= 50, else 'degraded'
\* iff hit_rate >= 30, else 'poor'.
C20_PerformanceStatus ==
    Assessed
    => /\ last.ret = "offline" <=> input.stats.status # "connected"
       /\ input.stats.status = "connected"
            => LET h == input.stats.hit_rate
                   c == input.stats.connected_clients
               IN  /\ last.ret = "optimal" <=> (h >= Pct(70) /\ c > 0)
                   /\ last.ret = "good"
                        <=> (~(h >= Pct(70) /\ c > 0) /\ h >= Pct(50))
                   /\ last.ret = "degraded"
                        <=> (Pct(30) <= h /\ h < Pct(50))
                   /\ last.ret = "poor" <=> h < Pct(30)

\* A connected store with a hit rate of 70 or more and no client is 'good'.
C20_Witness ==
    /\ Assessed /\ input.stats.status = "connected"
    /\ input.stats.hit_rate >= Pct(70)
    /\ input.stats.connected_clients = 0 /\ last.ret = "good"

Rated == last.op = "calculate_hit_rate"

\* C21 as stated: the reported hit rate is 0 without traffic and otherwise
\* exactly 100 * hits / (hits + misses).
C21_Original ==
    Rated
    => LET total == input.hits + input.misses IN
       IF total = 0 THEN last.ret = 0
       ELSE last.ret * total = 10000 * input.hits

\* C21: for all counters hits and misses, the reported hit rate is 0 when
\* hits + misses = 0 and otherwise the two-decimal value nearest to
\* 100 * hits / (hits + misses); it lies in [0, 100] and 80 hits with 20
\* misses give 80.
C21_HitRate ==
    Rated
    => LET total == input.hits + input.misses
           diff == 2 * (last.ret * total - 10000 * input.hits)
       IN  /\ total = 0 => last.ret = 0
           /\ total > 0 => (-total <= diff /\ diff <= total)
           /\ 0 <= last.ret /\ last.ret <= Pct(100)
           /\ (input.hits = 80 /\ input.misses = 20) => last.ret = Pct(80)

\* One hit in three requests is reported as 33.33.
C21_Witness ==
    /\ Rated /\ input.hits = 1 /\ input.misses = 2 /\ last.ret = 3333

(***************************************************************************)
(* Warming followed by live requests for the same product and dates        *)
(***************************************************************************)

V_from == PyStr(<<"2", "0", "2", "0">>)
V_to == PyStr(<<"2", "0", "2", "1">>)

\* The date_range the warm route builds: None without dates, else a mapping
\* of start_date and end_date.
LiveDateRanges ==
    {None, Mapping(<<<<A_start_date, V_from>>, <<A_end_date, V_to>>>>)}

\* What the six producers do: the first returns a dict, returns None or
\* raises, and the others return a dict.
LiveOutcomes ==
    {[i \in 1..6 |-> IF i = 1 THEN v ELSE Dict(1)] :
        v \in {Dict(1), None, Exc(1)}}

\* The arguments get_comprehensive_dashboard passes to each cached query,
\* positionally: parent_asin, start_date, end_date and cities (no filter).
LiveArgs(parent_asin, date_range) ==
    <<<<A_parent_asin, PyStr(parent_asin)>>,
      <<A_start_date,
        IF date_range = None THEN None
        ELSE Arg(date_range.items, A_start_date)>>,
      <<A_end_date,
        IF date_range = None THEN None
        ELSE Arg(date_range.items, A_end_date)>>,
      <<A_cities, None>>>>

InitLive ==
    /\ redis_client = "None"
    /\ store = <<>>
    /\ prev = NoCall
    /\ last = NoCall
    /\ coros = <<>>
    /\ input \in [op : {"dates"}, date_range : LiveDateRanges]

\* Task i of the list get_comprehensive_dashboard gathers, as one call.
CachedQuery(i, parent_asin, out, ok) ==
    /\ Serving
    /\ \E r \in {get_cached(store, WarmingTasks[i],
                            LiveArgs(parent_asin, input.date_range),
                            out, ok)} :
        /\ store' = r.store
        /\ last' = [op |-> "query", task |-> i, product |-> parent_asin,
                    answered |-> redis_client = "client" /\ ok,
                    invoked |-> r.invoked, ret |-> r.ret]
    /\ prev' = Brief(last)
    /\ UNCHANGED <<redis_client, input, coros>>

NextLive ==
    \/ \E ok \in BOOLEAN : Connect(ok)
    \/ \E outs \in LiveOutcomes, ok \in BOOLEAN :
            Warm(ProductA, input.date_range, outs, ok)
    \/ \E i \in 1..6, ok \in BOOLEAN :
            CachedQuery(i, ProductA, Dict(1), ok)
    \/ \E key \in DOMAIN store : Expire(key)

SpecLive == InitLive /\ [][NextLive]_vars

\* A warm request that completed with failed = 0 on a store that answered,
\* with no producer returning None.
WarmedFully(r) ==
    /\ Warmed(r) /\ r.answered
    /\ r.report.failed = 0 /\ r.nulls = {}

\* C23: after warm_cache_for_product(id, date_range) completed with
\* failed = 0 on a connected store with non-null producer results, a warm
\* for the same arguments that comes next invokes no producer, and a live
\* cached query for any of the six components of id with the same dates and
\* no cities filter that comes next is a cache hit.
C23_WarmEntriesSkipped ==
    [][ WarmedFully(last)
        => /\ (/\ Warmed(last') /\ last'.answered
                /\ last'.product = last.product)
                => last'.invoked = {}
           /\ (/\ last'.op = "query" /\ last'.answered
                /\ last'.product = last.product)
                => (~last'.invoked /\ last'.ret # None) ]_vars

\* A second warm right after a full one: all six lookups hit.
C23_Witness ==
    /\ prev.op = "warm" /\ prev.answered
    /\ Warmed(last) /\ last.answered /\ last.invoked = {}
    /\ last.date_range # None
    /\ DOMAIN store =
        {query_cache_key(WarmingTasks[i],
            LiveArgs(last.product, last.date_range)) : i \in 1..6}

(***************************************************************************)
(* Calls of cache_with_fallback as coroutines on one event loop: a call    *)
(* runs until it awaits the store or the producer, and other coroutines    *)
(* run before it is resumed                                                *)
(***************************************************************************)

\* The most calls in flight or returned.
MaxTasks == 2

\* A call that has been made and awaits redis.get: its arguments, its locals
\* and, as history, whether it invoked the producer, whether the server
\* answered its set (answered) and whether the set wrote,
\* whether another call for the same key was awaiting its producer or its
\* set when this one looked the key up (shared), and whether a delete
\* covering its key returned after its producer was invoked (stale).
Called(cache_key, ttl) ==
    [pc |-> "get", cache_key |-> cache_key, ttl |-> ttl,
     cached_data |-> None, out |-> NotInvoked, fresh_data |-> None,
     ret |-> NotInvoked, invoked |-> FALSE, answered |-> FALSE,
     wrote |-> FALSE,
     shared |-> FALSE, stale |-> FALSE]

\* What the producer of call i may do.
TaskOutcomes(i) == {Dict(i), None, Exc(i)}

\* The calls that await their producer or their set for the key.
Filling(key) ==
    {i \in DOMAIN coros :
        coros[i].cache_key = key /\ coros[i].pc \in {"fetch", "set"}}

\* A request calls cache_with_fallback(cache_key, fetch_function, ttl).
Call(cache_key, ttl) ==
    /\ Serving /\ Len(coros) < MaxTasks
    /\ coros' = Append(coros, Called(cache_key, ttl))
    /\ UNCHANGED <<redis_client, store, prev, last, input>>

\* A call that finds the key being filled by another call returns None
\* instead of invoking its own producer.
AwaitGet_SingleFlight(i, ok) ==
    /\ i \in DOMAIN coros /\ coros[i].pc = "get"
    /\ \E cached_data \in {RedisGet(store, coros[i].cache_key, ok)} :
        coros' = [coros EXCEPT ![i] =
            IF cached_data # None
                THEN [@ EXCEPT !.pc = "done", !.cached_data = cached_data,
                               !.ret = cached_data]
            ELSE IF Filling(coros[i].cache_key) # {}
                THEN [@ EXCEPT !.pc = "done", !.ret = None, !.shared = TRUE]
            ELSE [@ EXCEPT !.pc = "fetch", !.invoked = TRUE]]
    /\ UNCHANGED <<redis_client, store, prev, last, input>>

\* cache_with_fallback up to its second await: redis.get answers; a hit is
\* returned, a miss invokes fetch_function.
AwaitGet(i, ok) ==
    /\ i \in DOMAIN coros /\ coros[i].pc = "get"
    /\ \E cached_data \in {RedisGet(store, coros[i].cache_key, ok)} :
        coros' = [coros EXCEPT ![i] =
            IF cached_data # None
                THEN [@ EXCEPT !.pc = "done", !.cached_data = cached_data,
                               !.ret = cached_data]
            ELSE [@ EXCEPT !.pc = "fetch", !.invoked = TRUE,
                           !.shared = Filling(coros[i].cache_key) # {}]]
    /\ UNCHANGED <<redis_client, store, prev, last, input>>

\* The producer settles: an exception is re-raised, None is returned as it
\* is, and a value goes on to redis.set, which returns at once without a
\* handle.
AwaitFetch(i, out) ==
    /\ i \in DOMAIN coros /\ coros[i].pc = "fetch"
    /\ coros' = [coros EXCEPT ![i] =
            IF IsException(out) \/ out = None
                THEN [@ EXCEPT !.pc = "done", !.out = out, !.ret = out]
            ELSE IF redis_client = "None"
                THEN [@ EXCEPT !.pc = "done", !.out = out,
                               !.fresh_data = out, !.ret = out]
            ELSE [@ EXCEPT !.pc = "set", !.out = out, !.fresh_data = out]]
    /\ UNCHANGED <<redis_client, store, prev, last, input>>

\* redis.set answers and cache_with_fallback returns fresh_data.
AwaitSet(i, ok) ==
    /\ i \in DOMAIN coros /\ coros[i].pc = "set"
    /\ \E w \in {RedisSet(store, coros[i].cache_key, coros[i].fresh_data,
                          coros[i].ttl, ok)} :
        /\ store' = w.store
        /\ coros' = [coros EXCEPT ![i] =
                [@ EXCEPT !.pc = "done", !.answered = ok, !.wrote = w.ret,
                          !.ret = coros[i].fresh_data]]
    /\ UNCHANGED <<redis_client, prev, last, input>>

\* The calls whose producer is invoked and whose key is among keys are
\* marked stale.
Staled(keys) ==
    [i \in DOMAIN coros |->
        IF coros[i].cache_key \in keys /\ coros[i].pc \in {"fetch", "set"}
            THEN [coros[i] EXCEPT !.stale = TRUE]
        ELSE coros[i]]

\* Another request's RedisConfig.delete(key) runs between two steps of the
\* calls in flight.
RaceDelete(key, ok) ==
    /\ Serving
    /\ \E r \in {RedisDelete(store, key, ok)} :
        /\ store' = r.store
        /\ coros' = IF redis_client = "client" /\ ok
                        THEN Staled({key}) ELSE coros
    /\ UNCHANGED <<redis_client, prev, last, input>>

\* Another request's RedisConfig.delete_pattern(pattern) runs between two
\* steps of the calls in flight.
RaceDeletePattern(pattern, ok) ==
    /\ Serving
    /\ \E r \in {delete_pattern(store, pattern, ok)} :
        /\ store' = r.store
        /\ coros' = IF redis_client = "client" /\ ok
                        THEN Staled({k \in CallKeys : GlobMatch(pattern, k)})
                    ELSE coros
    /\ UNCHANGED <<redis_client, prev, last, input>>

NextRace ==
    \/ \E ok \in BOOLEAN : Connect(ok)
    \/ \E key \in CallKeys : Call(key, None)
    \/ \E i \in 1..MaxTasks, ok \in BOOLEAN : AwaitGet(i, ok)
    \/ \E i \in 1..MaxTasks : \E out \in TaskOutcomes(i) : AwaitFetch(i, out)
    \/ \E i \in 1..MaxTasks, ok \in BOOLEAN : AwaitSet(i, ok)
    \/ \E key \in CallKeys, ok \in BOOLEAN : RaceDelete(key, ok)
    \/ \E ok \in BOOLEAN : RaceDeletePattern(N_summary \o <<":", "*">>, ok)

SpecRace == Init /\ [][NextRace]_vars

(***************************************************************************)
(* warm_cache_for_product with its six sub-operations as coroutines        *)
(***************************************************************************)

\* The gather of warm_cache_for_product returns as soon as one
\* sub-operation has raised.
Settled_FirstException(cs) ==
    \/ \A i \in DOMAIN cs : cs[i].pc = "done"
    \/ \E i \in DOMAIN cs : cs[i].pc = "done" /\ IsException(cs[i].ret)

\* asyncio.gather(*warming_tasks, return_exceptions=True) has a result:
\* every task has returned or raised.
Settled(cs) == \A i \in DOMAIN cs : cs[i].pc = "done"

\* warm_cache_for_product up to its await: the six coroutines are created
\* and gather schedules them; a mapping with a keyword they do not take
\* makes the call raise before any of them exists.
WarmStart(parent_asin, date_range) ==
    /\ Serving /\ coros = <<>> /\ last.op = "connect"
    /\ LET base_params ==
            IF date_range # None /\ date_range.items # <<>>
                THEN Update(<<<<A_parent_asin, PyStr(parent_asin)>>>>,
                            date_range.items)
            ELSE <<<<A_parent_asin, PyStr(parent_asin)>>>>
       IN  IF ~Accepts(base_params)
               THEN /\ coros' = coros
                    /\ last' = [op |-> "warm_raised", product |-> parent_asin]
           ELSE /\ coros' = [i \in 1..6 |->
                        Called(query_cache_key(WarmingTasks[i], base_params),
                               PyInt(component_ttl))]
                /\ last' = [op |-> "warm_started", product |-> parent_asin]
    /\ prev' = Brief(last)
    /\ UNCHANGED <<redis_client, store, input>>

\* gather has its results and warm_cache_for_product returns the report.
WarmReturn ==
    /\ last.op = "warm_started" /\ Settled(coros)
    /\ LET successful ==
            Cardinality({i \in DOMAIN coros : ~IsException(coros[i].ret)})
       IN  last' = [op |-> "warm_report", product |-> last.product,
                    report |-> [product |-> last.product,
                                successful |-> successful,
                                failed |-> Len(coros) - successful,
                                total |-> Len(coros)]]
    /\ prev' = Brief(last)
    /\ UNCHANGED <<redis_client, store, input, coros>>

NextFan ==
    \/ \E ok \in BOOLEAN : Connect(ok)
    \/ \E date_range \in DateRanges : WarmStart(ProductA, date_range)
    \/ \E i \in 1..6, ok \in BOOLEAN : AwaitGet(i, ok)
    \/ \E i \in 1..6 : \E out \in TaskOutcomes(i) : AwaitFetch(i, out)
    \/ \E i \in 1..6, ok \in BOOLEAN : AwaitSet(i, ok)
    \/ WarmReturn

SpecFan == Init /\ [][NextFan]_vars

\* C24: a failure of one warming sub-operation never cancels or prevents
\* another: when warm_cache_for_product returns its report none of the six
\* sub-operations is still in flight, each has invoked its producer and has
\* its own outcome (its producer's value, None or its producer's
\* exception), and the report counts those outcomes.
C24_FanOutSettles ==
    last.op = "warm_report"
    => /\ Len(coros) = 6
       /\ \A i \in DOMAIN coros :
            /\ coros[i].pc = "done"
            /\ coros[i].invoked
            /\ coros[i].ret = coros[i].out
            /\ coros[i].out \in TaskOutcomes(i)
       /\ last.report.failed =
            Cardinality({i \in DOMAIN coros : coros[i].out = Exc(i)})
       /\ last.report.successful + last.report.failed = 6

\* The report of a warming whose first sub-operation raised while the
\* other five returned their value and wrote it.
C24_Witness ==
    /\ last.op = "warm_report"
    /\ last.report.failed = 1 /\ last.report.successful = 5
    /\ coros[1].ret = Exc(1)
    /\ \A i \in 2..6 : coros[i].ret = Dict(i) /\ coros[i].wrote

\* The calls that have returned or raised.
Returned == {i \in DOMAIN coros : coros[i].pc = "done"}

\* The calls for the key that found it cold.
Cold(key) ==
    {i \in DOMAIN coros :
        /\ coros[i].cache_key = key /\ coros[i].pc # "get"
        /\ coros[i].cached_data = None}

\* C22: when calls of cache_with_fallback for the same cold key run
\* concurrently, each of them invokes the producer (n calls that find the key
\* cold make n producer invocations, and n store writes when the producers
\* return values and the server answers), and whichever interleaving occurs
\* every caller receives its producer's result or a cached value: a call
\* raises only the exception its own producer raised.
C22_NoSingleFlight ==
    /\ \A key \in CallKeys :
        Cold(key) = {i \in DOMAIN coros :
                        coros[i].cache_key = key /\ coros[i].invoked}
    /\ \A i \in Returned :
        LET c == coros[i] IN
        /\ c.invoked => c.ret = c.out
        /\ ~c.invoked => (c.ret = c.cached_data /\ c.ret # None)
        /\ IsException(c.ret) => (c.invoked /\ c.out = Exc(i))
        /\ (c.invoked /\ c.out = Dict(i) /\ redis_client = "client")
            => (c.wrote <=> c.answered)

\* Two calls for one key that both looked it up before either had written:
\* both invoked their producer and both wrote the key.
C22_Witness ==
    /\ Len(coros) >= 2 /\ Returned = DOMAIN coros
    /\ coros[1].cache_key = coros[2].cache_key
    /\ coros[1].invoked /\ coros[2].invoked
    /\ coros[1].wrote /\ coros[2].wrote
    /\ coros[2].shared

\* C29: once a delete of key k (or a pattern delete matching k) has
\* returned, the store never holds a value for k computed by a producer
\* invocation started before the delete.
C29_Original ==
    \A i \in DOMAIN coros :
        (coros[i].stale /\ coros[i].out = Dict(i))
        => ~(/\ coros[i].cache_key \in DOMAIN store
             /\ json_loads(store[coros[i].cache_key].data) = Dict(i))

====
